---------------------------- MODULE Spec2Model ----------------------------
(***************************************************************************)
(* Model of the Glassdoor review analysis script (load, statistics         *)
(* report, clean, timestamp disambiguation, imputation, interpolation,     *)
(* filtering).                                                             *)
(*                                                                         *)
(* Timestamps are integers counting hours from a model epoch; a calendar   *)
(* date is a multiple of HoursPerDay.  A missing cell (pandas nan) is the  *)
(* integer NaN, which lies outside every column's range; every comparison  *)
(* on a cell that may be missing is guarded, because a comparison with nan *)
(* is False in pandas.                                                     *)
(***************************************************************************)
EXTENDS Integers, Sequences, FiniteSets, Bags, TLC

VARIABLES
    xlsx,    \* rows of data.xlsx, in file order
    raw,     \* the DataFrame `raw`
    table,   \* rows of the statistics table written to README.md
    clean,   \* the DataFrame `clean`
    pc,      \* position of the script
    err,     \* which assert or exception stopped the script, if any
    interp,  \* the DataFrame `interp`, one row per point of interp_date
    lp_short, \* the DataFrame `lp_short`
    lp_long, \* the DataFrame `lp_long`
    errval,  \* the number named in the exception's message, if any
    items,   \* the track items of the playlist, over all its pages
    pos,     \* how many track items the loop has taken
    all_meta, \* the dictionary `all_meta`, in insertion order
    duplicate_tracks \* the list `duplicate_tracks`

vars == <<xlsx, raw, table, clean, pc, err, interp, lp_short, lp_long, errval,
          items, pos, all_meta, duplicate_tracks>>

\* the variables of the playlist analyser
playlist == <<items, pos, all_meta, duplicate_tracks>>

\* the variables the interpolation and filter sections assign
later == <<interp, lp_short, lp_long, errval>>

-----------------------------------------------------------------------------
(* Bounds of the model *)

MaxDay == 4        \* calendar dates of the input are the days 0..MaxDay
MaxRows == 3       \* rows of the Loader family of inputs
MaxStatRows == 2   \* rows of the statistics family of inputs
MaxCleanRows == 1  \* rows of the imputation family of inputs
MaxFracRows == 5   \* rows of the fraction family of inputs
MaxBurst == 11     \* reviews of one date in the filter family of inputs
MaxStrLen == 2     \* characters of a word in a track's name or artist
MaxArtists == 2    \* artists of a track
MaxTracks == 2     \* track items of a playlist
MaxMixRows == 3    \* rows of the mixed family of inputs

(* Program constants *)

NaN == 99          \* a blank cell, read as nan
HoursPerDay == 24  \* freq="H": one grid-unit is an hour
START_DATE == 24   \* doi_date("CEO 2"): day 1
CEO_3_DATE == 48   \* doi_date("CEO 3"): day 2
END_DATE == 72     \* datetime(2020, 12, 6): day 3
HALF == 50         \* the float 0.5 (value=0.5 of fillna), outside every integer column's range
FILT_ORDER == 2    \* FILT_ORDER

TIMELINE_KEYS == <<"stars", "recommends", "outlook", "ceo_opinion">>

clean_cols == <<"date">> \o TIMELINE_KEYS

Range(s) == {s[i] : i \in DOMAIN s}

Row(d, s, e, t, r, o, c, y) ==
    [date |-> d, stars |-> s, employed |-> e, technical |-> t,
     recommends |-> r, outlook |-> o, ceo_opinion |-> c, years |-> y]

-----------------------------------------------------------------------------
(* Load *)

\* assert all(a >= b for a, b in zip(raw["date"][:-1], raw["date"][1:]))
OrderStrict(tab) ==
    \A i \in 1..(Len(tab) - 1) : tab[i].date > tab[i + 1].date

OrderOk(tab) ==
    \A i \in 1..(Len(tab) - 1) : tab[i].date >= tab[i + 1].date

\* assert not any(raw["stars"].isna())
StarsOkInRangeOnly(tab) ==
    ~ \E i \in DOMAIN tab :
        tab[i].stars = NaN /\ START_DATE <= tab[i].date /\ tab[i].date <= END_DATE

StarsOk(tab) == ~ \E i \in DOMAIN tab : tab[i].stars = NaN

SeqToBag(s) ==
    [e \in Range(s) |-> Cardinality({i \in DOMAIN s : s[i] = e})]

\* every order in which the rows of a bag can be laid out
RECURSIVE Orderings(_)
Orderings(b) ==
    IF BagToSet(b) = {} THEN {<<>>}
    ELSE UNION {{<<e>> \o o : o \in Orderings(b (-) SetToBag({e}))} :
                   e \in BagToSet(b)}

SetMin(S) == CHOOSE x \in S : \A y \in S : x <= y

RowsOn(tab, d) == SelectSeq(tab, LAMBDA r : r.date = d)

RECURSIVE SortedFrom(_, _)
SortedFrom(tab, dates) ==
    IF dates = {} THEN {<<>>}
    ELSE LET d == SetMin(dates)
         IN  {g \o rest : g \in Orderings(SeqToBag(RowsOn(tab, d))),
                          rest \in SortedFrom(tab, dates \ {d})}

\* raw.sort_values("date", inplace=True) with the default kind="quicksort",
\* which is not stable: rows of equal date may come out in any order.
NoSort(tab) == {tab}

sort_values(tab) == SortedFrom(tab, {r.date : r \in Range(tab)})

\* (START_DATE <= raw["date"]) & (raw["date"] <= END_DATE)
InDateRangeOpen(d) == START_DATE <= d /\ d < END_DATE

in_date_range(d) == START_DATE <= d /\ d <= END_DATE

LoadNoAbort ==
    /\ pc = "load"
    /\ err' = IF ~OrderOk(xlsx) THEN "assert_order"
              ELSE IF ~StarsOk(xlsx) THEN "assert_stars" ELSE err
    /\ \E s \in sort_values(xlsx) :
           raw' = SelectSeq(s, LAMBDA r : in_date_range(r.date))
    /\ pc' = "report"
    /\ UNCHANGED <<xlsx, table, clean, later, playlist>>

Load ==
    /\ pc = "load"
    /\ IF ~OrderOk(xlsx)
       THEN /\ raw' = xlsx
            /\ pc' = "error"
            /\ err' = "assert_order"
       ELSE IF ~StarsOk(xlsx)
       THEN /\ raw' = xlsx
            /\ pc' = "error"
            /\ err' = "assert_stars"
       ELSE /\ \E s \in sort_values(xlsx) :
                   raw' = SelectSeq(s, LAMBDA r : in_date_range(r.date))
            /\ pc' = "report"
            /\ err' = err
    /\ UNCHANGED <<xlsx, table, clean, later, playlist>>

-----------------------------------------------------------------------------
(* Statistics and report *)

\* The DataFrame the statistics are taken from: the module-level `raw`,
\* read when the stats tuple is built and again inside make_row.
StatsInputCleaned ==
    [i \in DOMAIN raw |->
        [raw[i] EXCEPT
            !.recommends = IF @ # NaN THEN @
                           ELSE IF raw[i].stars >= 4 THEN 1 ELSE NaN]]

StatsInput == raw

\* ceo_2 = (doi_date("CEO 2") <= raw["date"]) & (raw["date"] < doi_date("CEO 3"))
\* ceo_3 = (doi_date("CEO 3") <= raw["date"])
InScopeClosed(scope, d) ==
    \/ scope = "all"
    \/ scope = "ceo_2" /\ START_DATE <= d /\ d <= CEO_3_DATE
    \/ scope = "ceo_3" /\ CEO_3_DATE <= d

InScope(scope, d) ==
    CASE scope = "all" -> TRUE
      [] scope = "ceo_2" -> START_DATE <= d /\ d < CEO_3_DATE
      [] scope = "ceo_3" -> CEO_3_DATE <= d

Stat(k, c, v, sc, l, p) ==
    [kind |-> k, col |-> c, val |-> v, scope |-> sc, label |-> l, positive |-> p]

\* kind "eq" is a comparison column == val (a Boolean Series); kind "col" is
\* the column itself, as in (raw["recommends"], "Recommend", True).
stats ==
    << Stat("eq", "stars", 5, "all", "5 Stars", TRUE),
       Stat("eq", "stars", 1, "all", "1 Star", FALSE),
       Stat("col", "recommends", 1, "all", "Recommend", TRUE),
       Stat("eq", "outlook", 1, "all", "Positive Outlook", TRUE),
       Stat("eq", "outlook", -1, "all", "Negative Outlook", FALSE),
       Stat("eq", "ceo_opinion", 1, "ceo_2", "Approve CEO 2", TRUE),
       Stat("eq", "ceo_opinion", -1, "ceo_2", "Disapprove CEO 2", FALSE),
       Stat("eq", "ceo_opinion", 1, "ceo_3", "Approve CEO 3", TRUE),
       Stat("eq", "ceo_opinion", -1, "ceo_3", "Disapprove CEO 3", FALSE) >>

\* The Series passed to make_row as `bools`, one entry per in-scope row.
\* Each entry keeps its row, which stands for the index label that
\* Series.where aligns the condition on.
Bools(st) ==
    LET rows == SelectSeq(StatsInput, LAMBDA r : InScope(st.scope, r.date))
    IN  [i \in DOMAIN rows |->
            [v |-> IF st.kind = "col" THEN rows[i][st.col]
                   ELSE IF rows[i][st.col] = st.val THEN 1 ELSE 0,
             row |-> rows[i]]]

\* Series.mean(): nan entries are skipped; the mean of no entries is nan,
\* written here as a fraction with denominator 0.
MeanZeroWhenEmpty(b) ==
    LET d == Cardinality({i \in DOMAIN b : b[i].v # NaN})
    IN  [n |-> Cardinality({i \in DOMAIN b : b[i].v = 1}),
         d |-> IF d = 0 THEN 1 ELSE d]

Mean(b) ==
    [n |-> Cardinality({i \in DOMAIN b : b[i].v = 1}),
     d |-> Cardinality({i \in DOMAIN b : b[i].v # NaN})]

\* bools.where(raw[col] == val): entries where the condition is False
\* become nan
WhereKeepMissing(b, col, val) ==
    [i \in DOMAIN b |->
        IF b[i].row[col] \in {val, NaN} THEN b[i] ELSE [b[i] EXCEPT !.v = NaN]]

Where(b, col, val) ==
    [i \in DOMAIN b |->
        IF b[i].row[col] = val THEN b[i] ELSE [b[i] EXCEPT !.v = NaN]]

\* frac >= k / 3; a comparison with nan is False.  The mean k/n and the
\* literals 1 / 3 and 2 / 3 are correctly rounded quotients, so the
\* floating-point comparison agrees with the exact one.
FracGt(frac, k) == frac.d > 0 /\ 3 * frac.n > k * frac.d

FracGe(frac, k) == frac.d > 0 /\ 3 * frac.n >= k * frac.d

indicator(frac, is_positive) ==
    IF is_positive
    THEN IF FracGe(frac, 2) THEN "good" ELSE IF FracGe(frac, 1) THEN "ok" ELSE "bad"
    ELSE IF FracGe(frac, 2) THEN "bad" ELSE IF FracGe(frac, 1) THEN "ok" ELSE "good"

\* f"{100 * frac:.0f}": the percentage rounded to the nearest integer, ties
\* to even; nan is printed as "nan".  (A tie needs a fraction whose reduced
\* denominator is 8, 40 or 200.)
Percent(frac) ==
    IF frac.d = 0 THEN [nan |-> TRUE, value |-> 0]
    ELSE LET q == (100 * frac.n) \div frac.d
             r == (100 * frac.n) % frac.d
         IN  [nan |-> FALSE,
              value |-> IF 2 * r < frac.d THEN q
                        ELSE IF 2 * r > frac.d THEN q + 1
                        ELSE IF q % 2 = 0 THEN q ELSE q + 1]

make_row(st) ==
    LET bools == Bools(st)
        fracs == << Mean(bools),
                    Mean(Where(bools, "technical", 1)),
                    Mean(Where(bools, "technical", 0)),
                    Mean(Where(bools, "employed", 1)),
                    Mean(Where(bools, "employed", 0)) >>
    IN  [label |-> st.label,
         N |-> Len(bools),
         fracs |-> fracs,
         colours |-> [k \in DOMAIN fracs |-> indicator(fracs[k], st.positive)],
         pcts |-> [k \in DOMAIN fracs |-> Percent(fracs[k])]]

\* rows = (make_row(bools, label, is_pos) for bools, label, is_pos in stats)
MakeTableReversed ==
    [k \in DOMAIN stats |-> make_row(stats[Len(stats) + 1 - k])]

make_table == [k \in DOMAIN stats |-> make_row(stats[k])]

Report ==
    /\ pc = "report"
    /\ table' = make_table
    /\ pc' = "clean"
    /\ UNCHANGED <<xlsx, raw, clean, err, later, playlist>>

-----------------------------------------------------------------------------
(* Clean *)

\* raw[in_date_range][clean_cols]: a new DataFrame holding the rows of raw
\* in the date range and the columns date, stars, recommends, outlook,
\* ceo_opinion only.
Project(r) == [c \in Range(clean_cols) |-> r[c]]

CleanThenImpute ==
    /\ pc = "clean"
    /\ clean' = LET rows == SelectSeq(raw, LAMBDA r : in_date_range(r.date))
                IN  [i \in DOMAIN rows |-> Project(rows[i])]
    /\ pc' = "impute"
    /\ UNCHANGED <<xlsx, raw, table, err, later, playlist>>

Clean ==
    /\ pc = "clean"
    /\ clean' = LET rows == SelectSeq(raw, LAMBDA r : in_date_range(r.date))
                IN  [i \in DOMAIN rows |-> Project(rows[i])]
    /\ pc' = "disambiguate"
    /\ UNCHANGED <<xlsx, raw, table, err, later, playlist>>

-----------------------------------------------------------------------------
(* Timestamp disambiguation *)

\* clean["date"].duplicated(keep=False)
DuplicatedRow(tab, i) == \E j \in DOMAIN tab : j # i /\ tab[j] = tab[i]

DuplicatedAny(tab, i) == \E j \in DOMAIN tab : j # i /\ tab[j].date = tab[i].date

\* position of row i inside its groupby("date") group (0 for the first)
RankInGroup(tab, i) == Cardinality({j \in 1..(i - 1) : tab[j].date = tab[i].date})

\* pd.date_range(date, periods=len(group), freq="H")[k]
HourlyRangeTwoHours(date, k) == date + 2 * k

hourly_range(date, k) == date + k

\* the loop over dup_date_data.groupby("date"): the groups are taken from the
\* dates as they were before the loop
Disambiguated(tab) ==
    [i \in DOMAIN tab |->
        IF DuplicatedAny(tab, i)
        THEN [tab[i] EXCEPT !.date = hourly_range(tab[i].date, RankInGroup(tab, i))]
        ELSE tab[i]]

\* any(clean["date"].duplicated())
HasDuplicates(tab) ==
    \E i, j \in DOMAIN tab : i < j /\ tab[i].date = tab[j].date

DisambiguateThroughView ==
    /\ pc = "disambiguate"
    /\ clean' = Disambiguated(clean)
    /\ raw' = Disambiguated(raw)
    /\ IF HasDuplicates(clean')
       THEN pc' = "error" /\ err' = "assert_unique"
       ELSE pc' = "impute" /\ err' = err
    /\ UNCHANGED <<xlsx, table, later, playlist>>

Disambiguate ==
    /\ pc = "disambiguate"
    /\ clean' = Disambiguated(clean)
    /\ IF HasDuplicates(clean')
       THEN pc' = "error" /\ err' = "assert_unique"
       ELSE pc' = "impute" /\ err' = err
    /\ UNCHANGED <<xlsx, raw, table, later, playlist>>

-----------------------------------------------------------------------------
(* Imputation *)

\* clean[col][missing & (clean["stars"] >= 4)] = 1 and
\* clean[col][missing & (clean["stars"] <= 2)] = -1, with
\* missing = clean[col].isna() taken once per column
InferHighStrict(tab, col) ==
    [i \in DOMAIN tab |->
        IF tab[i][col] = NaN /\ tab[i].stars # NaN /\ tab[i].stars > 4
        THEN [tab[i] EXCEPT ![col] = 1] ELSE tab[i]]

InferHigh(tab, col) ==
    [i \in DOMAIN tab |->
        IF tab[i][col] = NaN /\ tab[i].stars # NaN /\ tab[i].stars >= 4
        THEN [tab[i] EXCEPT ![col] = 1] ELSE tab[i]]

InferLow(tab, col) ==
    [i \in DOMAIN tab |->
        IF tab[i][col] = NaN /\ tab[i].stars # NaN /\ tab[i].stars <= 2
        THEN [tab[i] EXCEPT ![col] = -1] ELSE tab[i]]

\* clean[col].fillna(value=value, inplace=True)
FillNaSkipCeo(tab, col, value) ==
    [i \in DOMAIN tab |->
        IF tab[i][col] = NaN /\ col # "ceo_opinion"
        THEN [tab[i] EXCEPT ![col] = value] ELSE tab[i]]

fillna(tab, col, value) ==
    [i \in DOMAIN tab |->
        IF tab[i][col] = NaN THEN [tab[i] EXCEPT ![col] = value] ELSE tab[i]]

Imputed(tab) ==
    LET t1 == InferHigh(tab, "recommends")
        t2 == InferLow(InferHigh(t1, "outlook"), "outlook")
    IN  fillna(fillna(fillna(t2, "recommends", HALF), "outlook", 0),
               "ceo_opinion", 0)

Impute ==
    /\ pc = "impute"
    /\ clean' = Imputed(clean)
    /\ pc' = "interpolate"
    /\ UNCHANGED <<xlsx, raw, table, err, later, playlist>>

-----------------------------------------------------------------------------
(* Interpolation *)

SetMax(S) == CHOOSE x \in S : \A y \in S : y <= x

\* pd.date_range(start=start, end=end, freq="H"): both ends included
InterpDateOpen(start, end) == [k \in 1..(end - start) |-> start + (k - 1)]

interp_date(start, end) == [k \in 1..(end - start + 1) |-> start + (k - 1)]

\* (index - start).days: the whole days of each time difference
delta_days(ts, start) == (ts - start) \div HoursPerDay

\* A cell of clean as a fraction; the values of a column are whole numbers
\* or 0.5.
AsFraction(v) == IF v = HALF THEN [n |-> 1, d |-> 2] ELSE [n |-> v, d |-> 1]

\* np.interp(x, xp, fp) for one x inside [xp[1], xp[Len(xp)]] and xp in
\* non-decreasing order: j is the last index with xp[j] <= x; the result is
\* fp[j] when j is the last index or xp[j] = x, and otherwise lies on the
\* line from (xp[j], fp[j]) to (xp[j+1], fp[j+1]).  Results are exact
\* fractions: the rounding of the floating-point evaluation is left out.
NpInterpDescending(x, xp, fp) ==
    LET n == Len(xp)
        j == SetMax({i \in 1..n : xp[i] <= x})
    IN  IF x > xp[n] THEN fp[n]
        ELSE IF x < xp[1] THEN fp[1]
        ELSE IF j = n \/ xp[j] = x THEN fp[j]
        ELSE LET dx == xp[j + 1] - xp[j]
                 a == fp[j]
                 b == fp[j + 1]
             IN  [n |-> a.n * b.d * dx - (b.n * a.d - a.n * b.d) * (x - xp[j]),
                  d |-> a.d * b.d * dx]

np_interp(x, xp, fp) ==
    LET n == Len(xp)
        j == SetMax({i \in 1..n : xp[i] <= x})
    IN  IF x > xp[n] THEN fp[n]
        ELSE IF x < xp[1] THEN fp[1]
        ELSE IF j = n \/ xp[j] = x THEN fp[j]
        ELSE LET dx == xp[j + 1] - xp[j]
                 a == fp[j]
                 b == fp[j + 1]
             IN  [n |-> a.n * b.d * dx + (b.n * a.d - a.n * b.d) * (x - xp[j]),
                  d |-> a.d * b.d * dx]

\* DataFrame.set_index(index): the rows keep their values and take the
\* entries of index as labels
SetIndexKeep(frame, index) == frame

set_index(frame, index) ==
    [i \in DOMAIN frame |-> [frame[i] EXCEPT !.date = index[i]]]

\* clean.drop(columns="date").apply(do_interp): every remaining column
\* goes through np.interp; the result is labelled 0, 1, 2, ...
Interpolated(tab, start, end) ==
    LET target == interp_date(start, end)
        clean_delta_days == [i \in DOMAIN tab |-> delta_days(tab[i].date, start)]
        interp_delta_days == [k \in DOMAIN target |-> delta_days(target[k], start)]
        do_interp(col, k) ==
            np_interp(interp_delta_days[k], clean_delta_days,
                      [i \in DOMAIN tab |-> AsFraction(tab[i][col])])
    IN  set_index(
            [k \in DOMAIN target |->
                [c \in Range(clean_cols) |->
                    IF c = "date" THEN k - 1 ELSE do_interp(c, k)]],
            target)

\* With no row in clean, start and end are NaT and pd.date_range raises
\* ValueError.
Interpolate ==
    /\ pc = "interpolate"
    /\ IF clean = <<>>
       THEN /\ pc' = "error"
            /\ err' = "date_range_NaT"
            /\ interp' = interp
       ELSE /\ interp' = Interpolated(clean,
                                      SetMin({r.date : r \in Range(clean)}),
                                      SetMax({r.date : r \in Range(clean)}))
            /\ pc' = "filter"
            /\ err' = err
    /\ UNCHANGED <<xlsx, raw, table, clean, lp_short, lp_long, errval, playlist>>

-----------------------------------------------------------------------------
(* Filter *)

\* filtfilt's default padlen: 3 * max(len(a), len(b)), and butter(N, Wn)
\* returns N + 1 coefficients in each of b and a
PadlenNone == 0 * (FILT_ORDER + 1)

padlen == 3 * (FILT_ORDER + 1)

\* interp.apply(filt): filtfilt returns, for every column, an array as long
\* as the column; the result is labelled 0, 1, 2, ...  The filtered values
\* are real numbers computed from the Butterworth coefficients and are not
\* represented: a row records its label and which columns it holds.
AppliedShort(grid) ==
    [i \in 1..(Len(grid) - 1) |->
        [date |-> i - 1, columns |-> DOMAIN grid[i] \ {"date"}]]

Applied(grid) ==
    [i \in DOMAIN grid |->
        [date |-> i - 1, columns |-> DOMAIN grid[i] \ {"date"}]]

Index(frame) == [i \in DOMAIN frame |-> frame[i].date]

\* filtfilt raises ValueError("The length of the input vector x must be
\* greater than padlen, which is 9.") on the first column of the first
\* apply, before lp_short or lp_long is assigned.
Filter ==
    /\ pc = "filter"
    /\ IF Len(interp) <= padlen
       THEN /\ pc' = "error"
            /\ err' = "filtfilt_padlen"
            /\ errval' = padlen
            /\ UNCHANGED <<lp_short, lp_long>>
       ELSE /\ lp_short' = set_index(Applied(interp), Index(interp))
            /\ lp_long' = set_index(Applied(interp), Index(interp))
            /\ pc' = "done"
            /\ UNCHANGED <<err, errval>>
    /\ UNCHANGED <<xlsx, raw, table, clean, interp, playlist>>

-----------------------------------------------------------------------------
(* Inputs and specifications *)

Days == {d * HoursPerDay : d \in 0..MaxDay}

Tables(rows, n) == UNION {[1..k -> rows] : k \in 0..n}

Start(t) ==
    /\ xlsx = t
    /\ raw = <<>>
    /\ table = <<>>
    /\ clean = <<>>
    /\ pc = "load"
    /\ err = "none"
    /\ interp = <<>>
    /\ lp_short = <<>>
    /\ lp_long = <<>>
    /\ errval = 0
    /\ items = <<>>
    /\ pos = 0
    /\ all_meta = <<>>
    /\ duplicate_tracks = <<>>

Next == Load \/ Report \/ Clean \/ Disambiguate \/ Impute \/ Interpolate \/ Filter

\* Loader family: any date order, dates inside and outside the range,
\* stars present or blank
LoaderRows ==
    {Row(d, s, NaN, NaN, r, NaN, NaN, NaN) :
        d \in Days, s \in {NaN, 4}, r \in {NaN, 1}}

Init == \E t \in Tables(LoaderRows, MaxRows) : Start(t)

Spec == Init /\ [][Next]_vars

\* Statistics family: rows the Loader accepts, on the first day of CEO 2
\* and the first day of CEO 3; employed and technical given, one of them
\* blank, against a few answer profiles
\* <<stars, recommends, outlook, ceo_opinion>>
Answers ==
    { <<5, NaN, NaN, NaN>>, <<1, 0, -1, -1>>, <<5, 1, 1, 1>> }

\* <<employed, technical>>
Staff ==
    { <<1, 1>>, <<0, 0>>, <<1, 0>>, <<0, NaN>>, <<NaN, 1>> }

StatRows ==
    {Row(d, a[1], st[1], st[2], a[2], a[3], a[4], NaN) :
        d \in {START_DATE, CEO_3_DATE}, a \in Answers, st \in Staff}

InitStats ==
    \E t \in {u \in Tables(StatRows, MaxStatRows) : OrderOk(u)} : Start(t)

SpecStats == InitStats /\ [][Next]_vars

\* Imputation family: every star rating against every state of the three
\* imputed columns
CleanRows ==
    {Row(START_DATE, s, NaN, NaN, r, o, c, NaN) :
        s \in 1..5, r \in {NaN, 0, 1}, o \in {NaN, -1, 0, 1}, c \in {NaN, -1, 0, 1}}

InitClean == \E t \in Tables(CleanRows, MaxCleanRows) : Start(t)

SpecClean == InitClean /\ [][Next]_vars

\* Disambiguation family: for each date of the range, none, one, a few, a
\* full day's worth or more than a day's worth of reviews
GroupSizes == {0, 1, 2, HoursPerDay, HoursPerDay + 1}

RangeDays == {d \in Days : in_date_range(d)}

RECURSIVE Reviews(_, _)
Reviews(counts, days) ==
    IF days = {} THEN <<>>
    ELSE LET d == CHOOSE x \in days : \A y \in days : y <= x
         IN  [k \in 1..counts[d] |-> Row(d, 3, NaN, NaN, NaN, NaN, NaN, NaN)]
                 \o Reviews(counts, days \ {d})

InitDisamb ==
    \E counts \in [RangeDays -> GroupSizes] : Start(Reviews(counts, RangeDays))

SpecDisamb == InitDisamb /\ [][Next]_vars

\* Fraction family: up to MaxFracRows reviews of one date, each with 5
\* stars or 1 star, so that "5 Stars" (high is good) and "1 Star" (high is
\* bad) take every fraction k/n
FracRows == {Row(START_DATE, s, 0, 1, NaN, NaN, NaN, NaN) : s \in {1, 5}}

InitFrac == \E t \in Tables(FracRows, MaxFracRows) : Start(t)

SpecFrac == InitFrac /\ [][Next]_vars

\* Filter family: up to MaxBurst reviews of one date, with or without one
\* review on a later date, so that the grid has fewer, as many and more
\* points than filtfilt pads with
InitFilter ==
    \E k \in 0..MaxBurst, m \in {0, 1} :
        Start([i \in 1..m |-> Row(CEO_3_DATE, 1, NaN, NaN, NaN, NaN, NaN, NaN)]
                  \o [i \in 1..k |-> Row(START_DATE, 3, NaN, NaN, NaN, NaN, NaN, NaN)])

SpecFilter == InitFilter /\ [][Next]_vars

\* The Loader family and the disambiguation family together: inputs that
\* end in each of the errors
SpecErrors == (Init \/ InitDisamb) /\ [][Next]_vars

-----------------------------------------------------------------------------
(* Playlist analyser: duplicate tracks *)

\* A string is the sequence of its characters.
include_album == FALSE

\* str.lower on the characters of the model
LowerChar(c) ==
    CASE c = "A" -> "a" [] c = "B" -> "b" [] c = "X" -> "x" [] OTHER -> c

Lower(str) == [i \in DOMAIN str |-> LowerChar(str[i])]

\* code point order of the characters of the model
Ord(c) ==
    CASE c = " " -> 32 [] c = "A" -> 65 [] c = "B" -> 66 [] c = "X" -> 88
      [] c = "a" -> 97 [] c = "b" -> 98 [] c = "x" -> 120

\* str <= str
RECURSIVE StrLeq(_, _)
StrLeq(u, v) ==
    IF u = <<>> THEN TRUE
    ELSE IF v = <<>> THEN FALSE
    ELSE IF Head(u) = Head(v) THEN StrLeq(Tail(u), Tail(v))
    ELSE Ord(Head(u)) < Ord(Head(v))

\* str.strip(): leading and trailing whitespace removed
RECURSIVE LStrip(_)
LStrip(str) == IF str # <<>> /\ Head(str) = " " THEN LStrip(Tail(str)) ELSE str

RECURSIVE RStrip(_)
RStrip(str) ==
    IF str # <<>> /\ str[Len(str)] = " "
    THEN RStrip(SubSeq(str, 1, Len(str) - 1)) ELSE str

strip(str) == RStrip(LStrip(str))

\* artists.sort(key=str.lower): a stable sort on the lower-cased names
RECURSIVE sort(_)
sort(l) ==
    IF l = <<>> THEN <<>>
    ELSE LET init == sort(SubSeq(l, 1, Len(l) - 1))
             x == l[Len(l)]
             k == Cardinality({i \in DOMAIN init : StrLeq(Lower(init[i]), Lower(x))})
         IN  SubSeq(init, 1, k) \o <<x>> \o SubSeq(init, k + 1, Len(init))

\* "".join(parts)
RECURSIVE join(_)
join(parts) == IF parts = <<>> THEN <<>> ELSE Head(parts) \o join(Tail(parts))

\* name, artists and album of a track, as the loop body computes them
NameOf(track) == strip(track.name)

ArtistsOf(track) == sort([i \in DOMAIN track.artists |-> strip(track.artists[i])])

AlbumOf(track) == strip(track.album)

meta_key(track) ==
    join(<<NameOf(track)>> \o ArtistsOf(track)
             \o <<IF include_album THEN AlbumOf(track) ELSE <<>> >>)

\* all_meta.get(meta_key): the position of the key, 0 for None
Get(meta, key) ==
    IF \E i \in DOMAIN meta : meta[i].key = key
    THEN CHOOSE i \in DOMAIN meta : meta[i].key = key
    ELSE 0

\* one pass of the body of `for track_item in tracks["items"]`
Updated(meta, track) ==
    LET key == meta_key(track)
        at == Get(meta, key)
        album == AlbumOf(track)
    IN  IF at = 0
        THEN Append(meta, [key |-> key,
                           value |-> [track |-> NameOf(track),
                                      artists |-> ArtistsOf(track),
                                      albums |-> <<album>>,
                                      count |-> 1]])
        ELSE LET item == meta[at].value
                 known == \E i \in DOMAIN item.albums :
                              Lower(item.albums[i]) = Lower(album)
             IN  [meta EXCEPT ![at].value =
                     [item EXCEPT !.count = item.count + 1,
                                  !.albums = IF known THEN item.albums
                                             ELSE Append(item.albums, album)]]

\* the loops over the pages and over the items of a page: one item a step;
\* an item whose track is None is skipped
ScanTrack ==
    /\ pc = "scan"
    /\ pos < Len(items)
    /\ all_meta' = IF items[pos + 1].none THEN all_meta
                   ELSE Updated(all_meta, items[pos + 1])
    /\ pos' = pos + 1
    /\ UNCHANGED <<xlsx, raw, table, clean, pc, err, later, items, duplicate_tracks>>

\* duplicate_tracks = [x for x in all_meta.values() if x["count"] > 1],
\* once spotify.next(tracks) has returned None
FindDuplicates ==
    /\ pc = "scan"
    /\ pos = Len(items)
    /\ duplicate_tracks' =
           LET dups == SelectSeq(all_meta, LAMBDA e : e.value.count > 1)
           IN  [k \in DOMAIN dups |-> dups[k].value]
    /\ pc' = "end"
    /\ UNCHANGED <<xlsx, raw, table, clean, err, later, items, pos, all_meta>>

NextPlaylist == ScanTrack \/ FindDuplicates

\* Mixed family: reviews of the first, a middle and the last date of the
\* range that differ only in fields the imputation fills, with answers
\* given, blank and equal to what the imputation infers
MixRows ==
    {Row(d, a[1], 1, 1, a[2], a[3], a[4], NaN) :
        d \in {START_DATE, CEO_3_DATE, END_DATE},
        a \in { <<5, NaN, NaN, NaN>>, <<5, 1, 1, 0>>, <<3, NaN, 0, NaN>>,
                <<1, 0, NaN, -1>> }}

InitMix ==
    \E t \in {u \in Tables(MixRows, MaxMixRows) : OrderOk(u)} : Start(t)

SpecMix == InitMix /\ [][Next]_vars

\* Playlist family: words over a and b, a name with a space before it, an
\* artist in upper case, two spellings of one album, and an item without a
\* track
Words == UNION {[1..n -> {"a", "b"}] : n \in 1..MaxStrLen}

Track(n, ar, al) == [none |-> FALSE, name |-> n, artists |-> ar, album |-> al]

NoTrack == [none |-> TRUE, name |-> <<>>, artists |-> <<>>, album |-> <<>>]

TrackItems ==
    {NoTrack} \cup
    {Track(n, ar, al) :
        n \in Words \cup {<<" ", "a">>},
        ar \in UNION {[1..k -> Words \cup {<<"B">>}] : k \in 1..MaxArtists},
        al \in {<<"x">>, <<"X">>}}

InitPlaylist ==
    /\ items \in Tables(TrackItems, MaxTracks)
    /\ pos = 0
    /\ all_meta = <<>>
    /\ duplicate_tracks = <<>>
    /\ pc = "scan"
    /\ err = "none"
    /\ xlsx = <<>> /\ raw = <<>> /\ table = <<>> /\ clean = <<>>
    /\ interp = <<>> /\ lp_short = <<>> /\ lp_long = <<>> /\ errval = 0

SpecPlaylist == InitPlaylist /\ [][NextPlaylist]_vars

-----------------------------------------------------------------------------
(* Properties *)

Loaded == pc # "load" /\ err \notin {"assert_order", "assert_stars"}

LoaderFailed == err \in {"assert_order", "assert_stars"}

DisambiguatorDone == pc \in {"impute", "interpolate"}

DayOf(ts) == ts \div HoursPerDay

Count(tab, P(_)) == Cardinality({i \in DOMAIN tab : P(tab[i])})

OnDay(tab, day) == Count(tab, LAMBDA r : DayOf(r.date) = day)

AllDays(tab) == {DayOf(tab[i].date) : i \in DOMAIN tab}

OverCapacity(tab) == \E day \in AllDays(tab) : OnDay(tab, day) > HoursPerDay

\* C1: whenever the Disambiguator has produced its series, the timestamps
\* are strictly increasing in record order (hence pairwise distinct) and each
\* calendar day holds as many records as it held in the Disambiguator's
\* input.
C1_DistinctAscendingSameDays ==
    DisambiguatorDone =>
        /\ \A i \in 1..(Len(clean) - 1) : clean[i].date < clean[i + 1].date
        /\ \A day \in AllDays(raw) \cup AllDays(clean) :
               OnDay(clean, day) = OnDay(raw, day)

\* C2: once disambiguation has run on a series in which some calendar date
\* has more records than there are hours in a day, the script has stopped
\* at the uniqueness assert and no series goes on to the later stages.
C2_OverCapacityFails ==
    (pc \in {"impute", "interpolate", "error"} /\ Loaded /\ OverCapacity(raw))
        => (pc = "error" /\ err = "assert_unique")

ReportDone == table # <<>>

\* the fields the example names, of its first and of its second record
IsExampleA(r) ==
    /\ r.date = START_DATE /\ r.stars = 5 /\ r.technical = 1
    /\ r.employed = 1 /\ r.recommends = NaN

IsExampleB(r) ==
    /\ r.date = START_DATE /\ r.stars = 1 /\ r.technical = 0
    /\ r.employed = 0 /\ r.recommends = 0

IsExample(tab) ==
    /\ Len(tab) = 2
    /\ \E i, j \in DOMAIN tab : IsExampleA(tab[i]) /\ IsExampleB(tab[j])

RecommendRow == CHOOSE k \in DOMAIN stats : stats[k].label = "Recommend"

\* C3 (as stated): the statistics see the imputed records; for the two
\* example records the Recommend statistic has overall fraction 1/2 and
\* classification ok.
C3_StatsOnImputedRecords ==
    (ReportDone /\ IsExample(raw)) =>
        /\ table[RecommendRow].fracs[1] = [n |-> 1, d |-> 2]
        /\ table[RecommendRow].colours[1] = "ok"

\* C3 (amended): the statistics see the Loader's records, before any
\* imputation: for every statistic, the records counted as satisfying the
\* predicate are exactly the in-scope records whose field holds the value in
\* the Loader's output, so a missing recommends with stars >= 4 is not
\* counted as true; for the two example records the Recommend statistic has
\* overall fraction 0 (0 of the 1 record that answered) and classification
\* bad.
C3_StatsOnLoaderRecords ==
    ReportDone =>
        /\ \A k \in DOMAIN stats :
               table[k].fracs[1].n =
                   Count(raw, LAMBDA r : /\ InScope(stats[k].scope, r.date)
                                         /\ r[stats[k].col] = stats[k].val)
        /\ IsExample(raw) =>
               /\ table[RecommendRow].fracs[1] = [n |-> 0, d |-> 1]
               /\ table[RecommendRow].colours[1] = "bad"
               /\ table[RecommendRow].N = 2

C3_Witness == ReportDone /\ IsExample(raw)

\* C4: once the Loader has run on a table with a missing stars value in any
\* row, the script has stopped at one of the Loader's asserts.
C4_MissingStarsRejected ==
    (pc # "load" /\ \E i \in DOMAIN xlsx : xlsx[i].stars = NaN)
        => (pc = "error" /\ LoaderFailed)

C4_Witness ==
    /\ err = "assert_stars"
    /\ \E i \in DOMAIN xlsx :
           /\ xlsx[i].stars = NaN
           /\ xlsx[i].recommends # NaN
           /\ ~(START_DATE <= xlsx[i].date /\ xlsx[i].date <= END_DATE)
    /\ \E i \in DOMAIN xlsx : xlsx[i].stars # NaN

HasAscendingPair(tab) ==
    \E i \in 1..(Len(tab) - 1) : tab[i].date < tab[i + 1].date

\* C5 (as stated): the Loader fails exactly when some adjacent pair of raw
\* rows has the earlier date first.
C5_FailsIffUnordered ==
    pc # "load" => (LoaderFailed <=> HasAscendingPair(xlsx))

\* C5 (amended): the Loader fails exactly when some adjacent pair of raw
\* rows has the earlier date first or some stars value is missing; the order
\* assert is the one that fails exactly when such a pair exists, and equal
\* adjacent dates do not fail it.
C5_FailsIffUnorderedOrStarless ==
    pc # "load" =>
        /\ LoaderFailed <=>
               (HasAscendingPair(xlsx) \/ \E i \in DOMAIN xlsx : xlsx[i].stars = NaN)
        /\ err = "assert_order" <=> HasAscendingPair(xlsx)

C5_Witness ==
    /\ pc = "report"
    /\ \E i \in 1..(Len(xlsx) - 1) : xlsx[i].date = xlsx[i + 1].date

\* C6: when the Loader succeeds its output holds exactly the raw rows dated
\* within [START_DATE, END_DATE], both ends included, each as many times as
\* the input holds it.
C6_WindowExact ==
    Loaded =>
        SeqToBag(raw) =
            SeqToBag(SelectSeq(xlsx, LAMBDA r : START_DATE <= r.date /\ r.date <= END_DATE))

C6_Witness ==
    /\ pc = "report"
    /\ \E i \in DOMAIN raw : raw[i].date = START_DATE
    /\ \E i \in DOMAIN raw : raw[i].date = END_DATE
    /\ \E i \in DOMAIN xlsx : xlsx[i].date > END_DATE

\* C7 (as stated): when the Loader succeeds, consecutive output records have
\* strictly increasing timestamps.
C7_StrictlyAscending ==
    Loaded => \A i \in 1..(Len(raw) - 1) : raw[i].date < raw[i + 1].date

\* C7 (amended): when the Loader succeeds, consecutive output records have
\* non-decreasing timestamps: strictly increasing between rows of different
\* dates, equal between rows of the same date.
C7_NonDecreasing ==
    Loaded => \A i \in 1..(Len(raw) - 1) : raw[i].date <= raw[i + 1].date

C7_Witness ==
    /\ pc = "report"
    /\ \E i \in 1..(Len(raw) - 1) : raw[i].date = raw[i + 1].date
    /\ \E i \in 1..(Len(raw) - 1) : raw[i].date < raw[i + 1].date

ImputerDone == pc = "interpolate"

RefRecommends(r) ==
    IF r.recommends # NaN THEN r.recommends ELSE IF r.stars >= 4 THEN 1 ELSE HALF

RefOutlook(r) ==
    IF r.outlook # NaN THEN r.outlook
    ELSE IF r.stars >= 4 THEN 1 ELSE IF r.stars <= 2 THEN -1 ELSE 0

RefCeoOpinion(r) == IF r.ceo_opinion # NaN THEN r.ceo_opinion ELSE 0

\* C8: after the Imputer, every record's recommends, outlook and ceo_opinion
\* equal the reference computed from the same record of the Loader's output:
\* the original value if present, otherwise the value the stars rule or the
\* neutral constant gives.
C8_ImputerMatchesReference ==
    ImputerDone =>
        /\ Len(clean) = Len(raw)
        /\ \A i \in DOMAIN clean :
               /\ clean[i].stars = raw[i].stars
               /\ clean[i].recommends = RefRecommends(raw[i])
               /\ clean[i].outlook = RefOutlook(raw[i])
               /\ clean[i].ceo_opinion = RefCeoOpinion(raw[i])

C8_Witness ==
    /\ ImputerDone
    /\ \E i \in DOMAIN clean :
           /\ raw[i].stars = 5 /\ raw[i].recommends = 0 /\ clean[i].recommends = 0
           /\ raw[i].outlook = NaN /\ clean[i].outlook = 1
           /\ raw[i].ceo_opinion = NaN /\ clean[i].ceo_opinion = 0

OptionalFields ==
    {"employed", "technical", "recommends", "outlook", "ceo_opinion", "years"}

\* C9 (as stated): after the Imputer every record of the Cleaned Series
\* carries a value for employed, technical, recommends, outlook, ceo_opinion
\* and years.
C9_AllOptionalFieldsPresent ==
    ImputerDone =>
        \A i \in DOMAIN clean : \A f \in OptionalFields :
            f \in DOMAIN clean[i] /\ clean[i][f] # NaN

\* C9 (amended): after the Imputer every record of the Cleaned Series holds
\* exactly the columns date, stars, recommends, outlook and ceo_opinion, and
\* none of them is missing; employed, technical and years are not columns of
\* the Cleaned Series.
C9_CleanColumnsPresent ==
    ImputerDone =>
        \A i \in DOMAIN clean :
            /\ DOMAIN clean[i] = {"date", "stars", "recommends", "outlook", "ceo_opinion"}
            /\ \A f \in DOMAIN clean[i] : clean[i][f] # NaN

C9_Witness ==
    /\ ImputerDone
    /\ \E i \in DOMAIN clean :
           /\ raw[i].stars = 3
           /\ raw[i].recommends = NaN /\ raw[i].outlook = NaN /\ raw[i].ceo_opinion = NaN
           /\ raw[i].employed = NaN

SameFraction(frac, n, d) ==
    \/ frac.d = 0 /\ d = 0
    \/ frac.d > 0 /\ d > 0 /\ frac.n * d = n * frac.d

Satisfies(st, r) == InScope(st.scope, r.date) /\ r[st.col] = st.val

\* C10: for every statistic the overall fraction is the number of in-scope
\* records satisfying the predicate over the number of in-scope records, and
\* the four sub-group fractions are the same ratio over the in-scope records
\* with technical = 1, technical = 0, employed = 1 and employed = 0; a record
\* whose predicate field is missing is in the denominator.
C10_FractionsOverInScope ==
    ReportDone =>
        \A k \in DOMAIN stats :
            LET st == stats[k]
                Sub(col, val) ==
                    SelectSeq(raw, LAMBDA r : InScope(st.scope, r.date) /\ r[col] = val)
                Sat(tab) == Count(tab, LAMBDA r : Satisfies(st, r))
                All == SelectSeq(raw, LAMBDA r : InScope(st.scope, r.date))
            IN  /\ SameFraction(table[k].fracs[1], Sat(All), Len(All))
                /\ SameFraction(table[k].fracs[2], Sat(Sub("technical", 1)), Len(Sub("technical", 1)))
                /\ SameFraction(table[k].fracs[3], Sat(Sub("technical", 0)), Len(Sub("technical", 0)))
                /\ SameFraction(table[k].fracs[4], Sat(Sub("employed", 1)), Len(Sub("employed", 1)))
                /\ SameFraction(table[k].fracs[5], Sat(Sub("employed", 0)), Len(Sub("employed", 0)))

\* the band of a fraction n/d: 2 at or above 2/3, 1 from 1/3 and below 2/3,
\* 0 below 1/3
Band(frac) ==
    IF 3 * frac.n >= 2 * frac.d THEN 2 ELSE IF 3 * frac.n >= frac.d THEN 1 ELSE 0

ClassOf(band, positive) ==
    IF band = 1 THEN "ok"
    ELSE IF (band = 2) = positive THEN "good" ELSE "bad"

\* C11: every defined fraction of the table is classified by its band and
\* the polarity of its statistic: good / ok / bad from the top band down
\* when high is good, bad / ok / good when high is bad, with both thresholds
\* inclusive; so 3/4 is good, 1/2 is ok and 1/5 is bad under high-is-good.
C11_ClassificationBands ==
    ReportDone =>
        \A k \in DOMAIN stats : \A j \in 1..5 :
            LET frac == table[k].fracs[j]
            IN  frac.d > 0 =>
                    /\ table[k].colours[j] = ClassOf(Band(frac), stats[k].positive)
                    /\ (stats[k].positive /\ frac = [n |-> 3, d |-> 4])
                           => table[k].colours[j] = "good"
                    /\ (stats[k].positive /\ frac = [n |-> 1, d |-> 2])
                           => table[k].colours[j] = "ok"
                    /\ (stats[k].positive /\ frac = [n |-> 1, d |-> 5])
                           => table[k].colours[j] = "bad"

\* exactly 2/3 under high-is-good ("5 Stars") and exactly 1/3 under
\* high-is-bad ("1 Star")
C11_Witness ==
    /\ ReportDone
    /\ table[1].fracs[1] = [n |-> 2, d |-> 3] /\ table[1].colours[1] = "good"
    /\ table[2].fracs[1] = [n |-> 1, d |-> 3] /\ table[2].colours[1] = "ok"

\* the in-scope records of statistic st that fraction j is taken over
Eligible(st, j) ==
    SelectSeq(raw, LAMBDA r :
        /\ InScope(st.scope, r.date)
        /\ CASE j = 1 -> TRUE
             [] j = 2 -> r.technical = 1
             [] j = 3 -> r.technical = 0
             [] j = 4 -> r.employed = 1
             [] j = 5 -> r.employed = 0)

\* C12: when the window or sub-group a fraction is taken over holds no
\* record, the fraction is the undefined value (nan, printed "nan%") and not
\* 0; the report is written all the same, with one row per statistic.
C12_EmptyGroupUndefined ==
    ReportDone =>
        /\ Len(table) = Len(stats)
        /\ err \notin {"assert_order", "assert_stars"}
        /\ \A k \in DOMAIN stats : \A j \in 1..5 :
               Eligible(stats[k], j) = <<>> =>
                   /\ table[k].fracs[j].d = 0
                   /\ table[k].pcts[j].nan

\* no review under CEO 3, and no non-technical reviewer under CEO 2
C12_Witness ==
    /\ ReportDone
    /\ raw # <<>>
    /\ Eligible(stats[8], 1) = <<>>
    /\ Eligible(stats[6], 1) # <<>> /\ Eligible(stats[6], 3) = <<>>
    /\ table[8].pcts[1].nan /\ table[6].pcts[3].nan /\ ~table[6].pcts[1].nan

InterpDone == interp # <<>>

SameValue(f, g) == f.n * g.d = g.n * f.d

Channels == Range(TIMELINE_KEYS)

\* C13: at the timestamp of every record of the series, the resampled value
\* of every channel equals the record's value.
C13_ExactAtSourceNodes ==
    InterpDone =>
        \A i \in DOMAIN clean : \A c \in Channels :
            \E k \in DOMAIN interp :
                /\ interp[k].date = clean[i].date
                /\ SameValue(interp[k][c], AsFraction(clean[i][c]))

\* C14: at every grid point strictly between two consecutive records, every
\* channel lies on the straight line between the two records' values, the
\* position measured in grid-units (hours).
C14_LinearBetweenNodes ==
    InterpDone =>
        \A i \in 1..(Len(clean) - 1) : \A k \in DOMAIN interp : \A c \in Channels :
            (clean[i].date < interp[k].date /\ interp[k].date < clean[i + 1].date) =>
                LET a == AsFraction(clean[i][c])
                    b == AsFraction(clean[i + 1][c])
                    t == interp[k].date - clean[i].date
                    dt == clean[i + 1].date - clean[i].date
                IN  SameValue(interp[k][c],
                              [n |-> a.n * b.d * dt + (b.n * a.d - a.n * b.d) * t,
                               d |-> a.d * b.d * dt])

FirstDate == SetMin({clean[i].date : i \in DOMAIN clean})

LastDate == SetMax({clean[i].date : i \in DOMAIN clean})

\* C15: the index of the resampled grid is first, first + 1 hour, ..., last,
\* with first and last the smallest and largest timestamp of the series; it
\* has last - first + 1 rows and every record's timestamp is one of them.
C15_GridIndex ==
    InterpDone =>
        /\ Len(interp) = LastDate - FirstDate + 1
        /\ \A k \in DOMAIN interp : interp[k].date = FirstDate + (k - 1)
        /\ interp[1].date = FirstDate
        /\ interp[Len(interp)].date = LastDate
        /\ \A i \in DOMAIN clean : \E k \in DOMAIN interp : interp[k].date = clean[i].date

C15_Witness ==
    /\ InterpDone
    /\ Len(clean) = 2
    /\ LastDate = FirstDate + HoursPerDay
    /\ Len(interp) = HoursPerDay + 1

FilterDone == pc = "done"

\* C16: when the filter succeeds, lp_short and lp_long each have as many
\* rows as the resampled grid, the same timestamps in the same order, and
\* the same channels.
C16_FilteredShape ==
    FilterDone =>
        \A lp \in {lp_short, lp_long} :
            /\ Len(lp) = Len(interp)
            /\ \A k \in DOMAIN interp :
                   /\ lp[k].date = interp[k].date
                   /\ lp[k].columns = Channels

C16_Witness ==
    /\ FilterDone
    /\ Len(interp) = padlen + 1
    /\ Len(lp_short) = padlen + 1 /\ Len(lp_long) = padlen + 1

FilterRan == InterpDone /\ pc \in {"done", "error"}

\* the fewest grid points filtfilt accepts with FILT_ORDER = 2
MinPoints == 3 * (FILT_ORDER + 1) + 1

\* C17 (as stated): when the grid has fewer points than the filter needs,
\* the filter step ends in an error that carries the minimum required point
\* count, and neither lp_short nor lp_long is produced.
C17_ErrorCarriesMinimum ==
    (FilterRan /\ Len(interp) < MinPoints) =>
        /\ pc = "error" /\ err = "filtfilt_padlen"
        /\ errval = MinPoints
        /\ lp_short = <<>> /\ lp_long = <<>>

\* C17 (amended): when the grid has fewer points than the filter needs (fewer
\* than 10), the filter step ends in an error whose message names padlen = 9,
\* the point count the grid must exceed, and neither lp_short nor lp_long is
\* produced; with 10 points or more it does not fail.
C17_ErrorCarriesPadlen ==
    FilterRan =>
        /\ Len(interp) < MinPoints =>
               /\ pc = "error" /\ err = "filtfilt_padlen"
               /\ errval = MinPoints - 1
               /\ lp_short = <<>> /\ lp_long = <<>>
        /\ Len(interp) >= MinPoints => pc = "done"

C17_Witness ==
    /\ pc = "error" /\ err = "filtfilt_padlen"
    /\ Len(clean) = 1 /\ Len(interp) = 1
    /\ lp_short = <<>> /\ lp_long = <<>>

\* C19: an error is terminal.  A state with an error is at position
\* "error" and no step of the script is taken from it; after a Loader
\* failure nothing of the report, clean, interpolation or filter sections
\* exists, after the uniqueness assert no grid and no filtered series, after
\* the filter's error no filtered series.
C19_ErrorsTerminal ==
    /\ [](err # "none" => pc = "error")
    /\ [][pc # "error"]_vars
    /\ [](LoaderFailed =>
             /\ table = <<>> /\ clean = <<>> /\ interp = <<>>
             /\ lp_short = <<>> /\ lp_long = <<>>)
    /\ [](err = "assert_unique" =>
             interp = <<>> /\ lp_short = <<>> /\ lp_long = <<>>)
    /\ [](err = "filtfilt_padlen" => lp_short = <<>> /\ lp_long = <<>>)

C19_Witness ==
    /\ pc = "error" /\ err = "assert_stars"
    /\ xlsx # <<>> /\ table = <<>> /\ clean = <<>>

\* C20: the table has one row per statistic of `stats`, in the order of
\* `stats`, each with its statistic's label; and the sample count and the
\* count of satisfying records of a row are those of its own statistic.
C20_OneRowPerDefinition ==
    ReportDone =>
        /\ Len(table) = Len(stats)
        /\ \A k \in DOMAIN stats :
               /\ table[k].label = stats[k].label
               /\ table[k].N = Len(Eligible(stats[k], 1))
               /\ table[k].fracs[1].n =
                      Count(raw, LAMBDA r : Satisfies(stats[k], r))

C20_Witness ==
    /\ ReportDone
    /\ Len(raw) = 2
    /\ table[1].N = 2 /\ table[6].N = 1 /\ table[8].N = 1
    /\ table[1].fracs[1].n = 1 /\ table[2].fracs[1].n = 1

GroupSize(tab, i) == Count(tab, LAMBDA r : r.date = tab[i].date)

EarlierInGroup(tab, i) ==
    Cardinality({j \in DOMAIN tab : j < i /\ tab[j].date = tab[i].date})

\* C21: the disambiguation step gives the k-th record (k = 0, 1, ...) of a
\* date that holds more than one record the timestamp date + k hours, in the
\* order the records have in the series; a record alone on its date keeps its
\* timestamp; and every other field of every record is unchanged.
C21_HourlySlotsInOrder ==
    [][pc = "disambiguate" =>
          /\ Len(clean') = Len(clean)
          /\ \A i \in DOMAIN clean :
                 /\ clean'[i].date =
                        IF GroupSize(clean, i) > 1
                        THEN clean[i].date + EarlierInGroup(clean, i)
                        ELSE clean[i].date
                 /\ \A c \in Channels : clean'[i][c] = clean[i][c]]_vars

C21_Witness ==
    /\ pc = "impute"
    /\ Len(clean) = 2
    /\ clean[1].date = START_DATE /\ clean[2].date = START_DATE + 1
    /\ clean[1].stars # clean[2].stars

\* C22: the coordinate of every record on the numeric axis of the
\* interpolation is the number of hours between its timestamp and the first
\* timestamp of the series, so the coordinates of the records are strictly
\* increasing.
C22_CoordinatesInHours ==
    InterpDone =>
        /\ \A i \in DOMAIN clean :
               delta_days(clean[i].date, FirstDate) = clean[i].date - FirstDate
        /\ \A i, j \in DOMAIN clean :
               i < j => delta_days(clean[i].date, FirstDate)
                            < delta_days(clean[j].date, FirstDate)

HasMissing(tab) ==
    \E i \in DOMAIN tab : \E c \in Channels : tab[i][c] = NaN

\* position of a section in the order the claim gives: Loader, Imputer,
\* Timestamp Disambiguator, Resampler, Dual-Band Filter
ClaimedOrder ==
    [load |-> 1, impute |-> 2, disambiguate |-> 3, interpolate |-> 4,
     filter |-> 5, done |-> 6]

\* position of a section in the script
ScriptOrder ==
    [load |-> 1, report |-> 2, clean |-> 3, disambiguate |-> 4, impute |-> 5,
     interpolate |-> 6, filter |-> 7, done |-> 8]

\* C23 (as stated): the sections run in the order Loader, Imputer, Timestamp
\* Disambiguator, Resampler, Dual-Band Filter: a step never leads from a
\* section to one that is earlier in this order, and when disambiguation
\* starts no field is missing any more.
C23_ImputeBeforeDisambiguate ==
    /\ [][(pc \in DOMAIN ClaimedOrder /\ pc' \in DOMAIN ClaimedOrder)
              => ClaimedOrder[pc] < ClaimedOrder[pc']]_vars
    /\ [](pc = "disambiguate" => ~HasMissing(clean))

\* C23 (amended): the sections run in the order Loader, statistics report,
\* selection, Timestamp Disambiguator, Imputer, Resampler, Dual-Band Filter,
\* one at a time, each step leading to the next section or to the error
\* state; imputation starts with all timestamps distinct, interpolation
\* starts with nothing missing, the filter starts with the whole grid.
C23_DisambiguateBeforeImpute ==
    /\ [][pc' # "error" => ScriptOrder[pc'] = ScriptOrder[pc] + 1]_vars
    /\ [](pc = "impute" => ~HasDuplicates(clean))
    /\ [](pc = "interpolate" => ~HasMissing(clean) /\ ~HasDuplicates(clean))
    /\ [](pc = "filter" => InterpDone /\ lp_short = <<>> /\ lp_long = <<>>)

C23_Witness ==
    /\ pc = "impute"
    /\ HasMissing(clean)
    /\ Len(clean) = 2
    /\ clean[1].date = START_DATE /\ clean[2].date = START_DATE + 1

RowOf(label) == CHOOSE k \in DOMAIN stats : stats[k].label = label

\* C24: the statistics of CEO 2 count exactly the records with
\* START_DATE <= date < CEO_3_DATE and the statistics of CEO 3 exactly those
\* with CEO_3_DATE <= date: a record dated CEO_3_DATE is counted for CEO 3
\* and not for CEO 2, one dated START_DATE is counted for CEO 2, and the two
\* sample counts add up to the number of records dated START_DATE or later.
C24_HalfOpenWindows ==
    ReportDone =>
        /\ \A l \in {"Approve CEO 2", "Disapprove CEO 2"} :
               table[RowOf(l)].N =
                   Count(raw, LAMBDA r : START_DATE <= r.date /\ r.date < CEO_3_DATE)
        /\ \A l \in {"Approve CEO 3", "Disapprove CEO 3"} :
               table[RowOf(l)].N = Count(raw, LAMBDA r : CEO_3_DATE <= r.date)
        /\ table[RowOf("Approve CEO 2")].N + table[RowOf("Approve CEO 3")].N
               = Count(raw, LAMBDA r : START_DATE <= r.date)

C24_Witness ==
    /\ ReportDone
    /\ \E i, j \in DOMAIN raw : raw[i].date = START_DATE /\ raw[j].date = CEO_3_DATE
    /\ table[RowOf("Disapprove CEO 2")].N = 1
    /\ table[RowOf("Disapprove CEO 3")].N = 1

\* C25: the selection, the disambiguation and the imputation leave every
\* field of every record of raw, the Loader's output, as it was: timestamps
\* and missing fields included.
C25_RawUntouched ==
    [][(pc \in {"clean", "disambiguate", "impute"}) => (raw' = raw)]_vars

C25_Witness ==
    /\ pc = "interpolate"
    /\ Len(raw) = 2 /\ Len(clean) = 2
    /\ raw[1].date = raw[2].date /\ clean[1].date # clean[2].date
    /\ raw[1].recommends = NaN /\ clean[1].recommends # NaN

Scanned == pc = "end"

Tracks == {items[i] : i \in {j \in DOMAIN items : ~items[j].none}}

\* two tracks with the same stripped name and the same stripped artist
\* names, each as often (and the same album when include_album is set)
SameTrack(t, u) ==
    /\ strip(t.name) = strip(u.name)
    /\ SeqToBag([i \in DOMAIN t.artists |-> strip(t.artists[i])])
           = SeqToBag([i \in DOMAIN u.artists |-> strip(u.artists[i])])
    /\ include_album => strip(t.album) = strip(u.album)

\* C26: two tracks of the playlist get the same meta key only if they have
\* the same stripped name and the same stripped artist names (and album when
\* include_album is set), so every entry of duplicate_tracks stands for a
\* track that the playlist holds as often as the entry's count, more than
\* once.
C26_MetaKeyUnique ==
    Scanned =>
        /\ \A t, u \in Tracks : meta_key(t) = meta_key(u) => SameTrack(t, u)
        /\ \A k \in DOMAIN duplicate_tracks :
               \E t \in Tracks :
                   /\ NameOf(t) = duplicate_tracks[k].track
                   /\ ArtistsOf(t) = duplicate_tracks[k].artists
                   /\ duplicate_tracks[k].count =
                          Count(items, LAMBDA u : ~u.none /\ SameTrack(t, u))

\* C27: a fraction that is undefined (taken over no record) is given none
\* of the classifications good, ok and bad.
C27_UndefinedNotClassified ==
    ReportDone =>
        \A k \in DOMAIN table : \A j \in 1..5 :
            table[k].fracs[j].d = 0 =>
                table[k].colours[j] \notin {"good", "ok", "bad"}

\* the in-scope records that the fractions of statistic st count: all of
\* them for a comparison, those with the column present for "Recommend"
Counted(st, r) ==
    InScope(st.scope, r.date) /\ (st.kind = "col" => r[st.col] # NaN)

\* C28 (as stated): in every row of the table the numbers of records behind
\* the technical and the non-technical fraction add up to the sample count
\* N, and so do those behind the employed and the ex-employee fraction.
C28_SubGroupsSumToN ==
    ReportDone =>
        \A k \in DOMAIN table :
            /\ table[k].fracs[2].d + table[k].fracs[3].d = table[k].N
            /\ table[k].fracs[4].d + table[k].fracs[5].d = table[k].N

\* C28 (amended): a record whose technical field is missing is behind
\* neither the technical nor the non-technical fraction, and likewise for
\* employed: the two numbers add up to the number of counted records with
\* the field present, which is at most N.
C28_SubGroupsSumToPresent ==
    ReportDone =>
        \A k \in DOMAIN table :
            /\ table[k].fracs[2].d + table[k].fracs[3].d =
                   Count(raw, LAMBDA r : Counted(stats[k], r) /\ r.technical # NaN)
            /\ table[k].fracs[4].d + table[k].fracs[5].d =
                   Count(raw, LAMBDA r : Counted(stats[k], r) /\ r.employed # NaN)
            /\ table[k].fracs[2].d + table[k].fracs[3].d <= table[k].N
            /\ table[k].fracs[4].d + table[k].fracs[5].d <= table[k].N

C28_Witness ==
    /\ ReportDone
    /\ Len(raw) = 2
    /\ raw[1].technical = NaN /\ raw[2].technical = 1
    /\ raw[1].employed = 0 /\ raw[2].employed = 1
    /\ table[1].N = 2
    /\ table[1].fracs[2].d + table[1].fracs[3].d = 1
    /\ table[1].fracs[4].d + table[1].fracs[5].d = 2

\* the selection of lines 294-297, taken again from raw
Selected == [i \in DOMAIN raw |-> Project(raw[i])]

\* C29: imputation and disambiguation commute.  On the selected records,
\* imputing and then disambiguating gives the same records, timestamps and
\* fields, as disambiguating and then imputing; the uniqueness assert fails
\* in one order exactly if it fails in the other; and the series the script
\* has built when the imputation is done is the one of the other order.
C29_ImputeDisambiguateCommute ==
    /\ pc = "disambiguate" =>
           /\ Disambiguated(Imputed(clean)) = Imputed(Disambiguated(clean))
           /\ HasDuplicates(Disambiguated(Imputed(clean)))
                  = HasDuplicates(Disambiguated(clean))
    /\ ImputerDone => clean = Disambiguated(Imputed(Selected))

C29_Witness ==
    /\ ImputerDone
    /\ Len(raw) = 2 /\ Len(clean) = 2
    /\ raw[1].date = raw[2].date /\ raw[1] # raw[2]
    /\ \E i \in 1..2 : raw[i].recommends = NaN /\ raw[i].outlook = NaN
    /\ clean[2] = [clean[1] EXCEPT !.date = clean[1].date + 1]

\* f <= g for fractions with positive denominators
FracLeq(f, g) == f.n * g.d <= g.n * f.d

Within(v, lo, hi) == lo * v.d <= v.n /\ v.n <= hi * v.d

\* C30: every value of the grid lies between the least and the greatest
\* value of its channel in the Cleaned Series; stars lie in [1, 5],
\* recommends in [0, 1], outlook and ceo_opinion in [-1, 1].
C30_GridWithinSourceRange ==
    InterpDone =>
        \A k \in DOMAIN interp :
            /\ \A c \in Channels :
                   /\ interp[k][c].d > 0
                   /\ \E i \in DOMAIN clean :
                          FracLeq(AsFraction(clean[i][c]), interp[k][c])
                   /\ \E i \in DOMAIN clean :
                          FracLeq(interp[k][c], AsFraction(clean[i][c]))
            /\ Within(interp[k].stars, 1, 5)
            /\ Within(interp[k].recommends, 0, 1)
            /\ Within(interp[k].outlook, -1, 1)
            /\ Within(interp[k].ceo_opinion, -1, 1)

\* a grid point half way between a review of 5 stars and one of 1 star
C30_Witness ==
    /\ InterpDone
    /\ Len(clean) = 2
    /\ clean[1].stars = 5 /\ clean[2].stars = 1
    /\ \E k \in DOMAIN interp :
           /\ interp[k].stars.n = 3 * interp[k].stars.d
           /\ interp[k].recommends.n # interp[k].recommends.d
           /\ interp[k].recommends.n # 0

=============================================================================
